---- MODULE Spec2Model ----
(***************************************************************************)
(* Model of gimple2rdf.py: iter_triples walks an object graph with an      *)
(* explicit worklist (open), registers nodes in an insertion-ordered map   *)
(* (closed), mints URIs through a hash -> sequential id table (hashes) and *)
(* then serialises every closed node as RDF-like statements.               *)
(*                                                                         *)
(* Python values are records [kind, n, s, elems]:                          *)
(*   kind = "none" | "bool" | "int" | "str" | "callable" | "list" | "ref"  *)
(* A "ref" value names object n of the heap; heap[n] has a runtime type    *)
(* and an attribute valuation over what dir(obj) lists.                    *)
(*                                                                         *)
(* Spec is one invocation of iter_triples; SessionSpec is the pass calling *)
(* iter_triples several times over one unmutated heap, runs recording the  *)
(* invocations that returned.                                              *)
(***************************************************************************)
EXTENDS Integers, Sequences, FiniteSets, TLC

VARIABLES heap, prefix, start, open, closed, hashes, out, pc, pos, minted, runs

vars == <<heap, prefix, start, open, closed, hashes, out, pc, pos, minted, runs>>

---------------------------------------------------------------------------
(* Bounds of the model *)

\* longest ordered sequence held by a property
MaxLen == 2
\* size of the hash space; identity keys range over 0..HashSpace, so two
\* distinct keys (0 and HashSpace) hash alike
HashSpace == 2
\* the worklist loop is only run while open holds at most MaxOpen items
MaxOpen == 12

\* invocations of iter_triples in one session of the pass
MaxRuns == 3

Objs == {1, 2, 3}
Keys == 0..HashSpace

---------------------------------------------------------------------------
(* Python values *)

\* Body applied to the value of x, with x evaluated once (a local variable)
With(x, Body(_)) == CHOOSE y \in {Body(z) : z \in {x}} : TRUE

None == [kind |-> "none", n |-> 0, s |-> "", elems |-> <<>>]
PyBool(b) == [kind |-> "bool", n |-> IF b THEN 1 ELSE 0, s |-> "", elems |-> <<>>]
PyInt(i) == [kind |-> "int", n |-> i, s |-> "", elems |-> <<>>]
PyStr(t) == [kind |-> "str", n |-> 0, s |-> t, elems |-> <<>>]
\* the k-th text of an enumeration of the texts str_no_uid can hold
Text(k) == [kind |-> "str", n |-> k, s |-> "t" \o ToString(k), elems |-> <<>>]
Method == [kind |-> "callable", n |-> 0, s |-> "", elems |-> <<>>]
List(es) == [kind |-> "list", n |-> 0, s |-> "", elems |-> es]
Ref(i) == [kind |-> "ref", n |-> i, s |-> "", elems |-> <<>>]

\* type(obj).__name__
TypeName(v) ==
  CASE v.kind = "ref" -> heap[v.n].type
    [] v.kind = "none" -> "NoneType"
    [] v.kind = "bool" -> "bool"
    [] v.kind = "int" -> "int"
    [] v.kind = "str" -> "str"
    [] v.kind = "list" -> "list"
    [] OTHER -> "method"

\* dir(obj) without the names that start with "__": sorted attribute names
Dir(t) ==
  CASE t = "BasicBlock" -> <<"gimple", "index", "preds", "succs">>
    [] t = "Edge" -> <<"dest", "src">>
    [] t = "GimpleAssign" -> <<"lhs", "loc", "rhs", "str_no_uid">>
    [] t = "FunctionDecl" -> <<"arguments", "function", "location", "name", "result", "str_no_uid">>
    [] t = "Location" -> <<"column", "file", "line">>
    [] t = "ResultDecl" -> <<"location", "name", "str_no_uid", "type">>
    [] t = "PointerType" -> <<"dereference", "sizeof", "str_no_uid">>
    [] OTHER -> <<>>

\* getattr(obj, p); raises AttributeError (modelled as absent) when p is not an attribute
HasAttr(v, p) == v.kind = "ref" /\ p \in DOMAIN heap[v.n].attrs
GetAttr(v, p) == heap[v.n].attrs[p]

---------------------------------------------------------------------------
(* Policy: module-level tables *)

BLACKLIST == {"unsigned_equivalent", "signed_equivalent", "sizeof", "fullname",
              "callgraph_node", "str_no_uid"}

\* the marker of a type whose properties are all exported (a uuid4 that is
\* compared by identity); no entry of the whitelist as written uses it
ALL == <<"uuid4">>

\* the whitelist as written, suppressed names in brackets
RawWhitelist ==
  [BasicBlock |-> <<"gimple", "(succs)", "(preds)">>,
   Edge |-> <<"src", "dest">>,
   GimpleAssign |-> <<"lhs", "loc", "rhs">>,
   SsaName |-> <<"def_stmt">>,
   ArrayRef |-> <<"array", "index", "location">>,
   IntegerCst |-> <<"constant">>,
   MemRef |-> <<"location", "operand">>,
   ParmDecl |-> <<"location", "name">>,
   Location |-> <<"file", "line">>,
   GimpleCond |-> <<"block", "lhs", "loc", "rhs">>,
   AddrExpr |-> <<"location", "operand">>,
   GimpleCall |-> <<"args", "block", "fn", "fndecl", "loc", "noreturn", "rhs">>,
   GimpleReturn |-> <<"block", "loc">>,
   GimpleLabel |-> <<"label">>,
   LabelDecl |-> <<"location">>,
   VarDecl |-> <<"location", "name">>,
   FunctionDecl |-> <<"arguments", "function", "location", "name", "result">>,
   Function |-> <<"cfg", "decl", "end", "local_decls">>,
   Cfg |-> <<"basic_blocks", "entry", "exit">>]

\* w[0] == '(' and w[-1] == ')'
to_be_suppressed(w) == w \in {"(succs)", "(preds)"}

\* w[1:-1] of a bracketed name
Unbracket(w) ==
  CASE w = "(succs)" -> "succs"
    [] w = "(preds)" -> "preds"
    [] OTHER -> w

filter_whitelist(wl) ==
  IF wl = ALL THEN wl
  ELSE [i \in DOMAIN wl |-> IF to_be_suppressed(wl[i]) THEN Unbracket(wl[i]) ELSE wl[i]]

WHITELIST == [t \in DOMAIN RawWhitelist |-> filter_whitelist(RawWhitelist[t])]

SHOULD_BE_SUPPRESSED ==
  UNION { { <<t, Unbracket(RawWhitelist[t][i])>> :
              i \in {j \in DOMAIN RawWhitelist[t] : to_be_suppressed(RawWhitelist[t][j])} } :
          t \in {u \in DOMAIN RawWhitelist : RawWhitelist[u] # ALL} }

TYPE_BLACKLIST == {"PointerType", "IntegerType", "VoidType", "RealType",
                   "BooleanType", "TypeDecl"}

---------------------------------------------------------------------------
(* make_uri *)

\* hash() of a string or of a tuple of (name, value) pairs, keyed here by the
\* integer that stands for the hashed text or index
Hash(k) == k % HashSpace

\* id(obj): the address of a live object; None is one object of its own
Id(v) == IF v.kind = "ref" THEN v.n ELSE 0

IsGlobalFunction(v) == v.kind = "ref" /\ heap[v.n].type = "FunctionDecl"
IsGlobalLocation(v) == v.kind = "ref" /\ heap[v.n].type = "Location"

\* the try/except chain that computes h
IdentityHash(v) ==
  IF HasAttr(v, "str_no_uid") THEN Hash(GetAttr(v, "str_no_uid").n)
  ELSE IF TypeName(v) = "BasicBlock" THEN Hash(GetAttr(v, "index").n)
  ELSE Id(v)

\* what identifies the object within its type: the value make_uri hashes, or
\* the values the global forms are built from
IdentityKey(v) ==
  IF IsGlobalFunction(v) THEN [how |-> "name", a |-> GetAttr(v, "name"), b |-> None]
  ELSE IF IsGlobalLocation(v)
    THEN [how |-> "location", a |-> GetAttr(v, "file"), b |-> GetAttr(v, "line")]
  ELSE IF HasAttr(v, "str_no_uid")
    THEN [how |-> "str_no_uid", a |-> GetAttr(v, "str_no_uid"), b |-> None]
  ELSE IF TypeName(v) = "BasicBlock"
    THEN [how |-> "index", a |-> GetAttr(v, "index"), b |-> None]
  ELSE [how |-> "id", a |-> v, b |-> None]

\* LookupId that numbers h anew on every call
LookupId_Renumber(hs, h) ==
  [x \in DOMAIN hs \cup {h} |->
     IF x = h THEN Cardinality(DOMAIN hs) + 1 ELSE hs[x]]

\* LookupId numbering from len(hashes) instead of len(hashes)+1
LookupId_FromZero(hs, h) ==
  IF h \in DOMAIN hs THEN hs
  ELSE [x \in DOMAIN hs \cup {h} |->
          IF x = h THEN Cardinality(DOMAIN hs) ELSE hs[x]]

\* LookupId giving a first-seen h the number of the entry written last
LookupId_Shared(hs, h) ==
  IF h \in DOMAIN hs THEN hs
  ELSE [x \in DOMAIN hs \cup {h} |->
          IF x = h THEN (IF DOMAIN hs = {} THEN 1 ELSE Cardinality(DOMAIN hs)) ELSE hs[x]]

\* hashes after the lookup of h: a first-seen h is given len(hashes)+1
LookupId(hs, h) ==
  IF h \in DOMAIN hs THEN hs
  ELSE [x \in DOMAIN hs \cup {h} |->
          IF x = h THEN Cardinality(DOMAIN hs) + 1 ELSE hs[x]]

\* a URI that leaves the type name out
ScopedUri_NoType(pfx, tname, identifier) ==
  pfx \o ":" \o "node" \o "_" \o ToString(identifier)

\* "{}:{}".format(prefix, "{}_{}".format(type(obj).__name__, identifier))
ScopedUri(pfx, tname, identifier) ==
  pfx \o ":" \o tname \o "_" \o ToString(identifier)

\* str.format of a literal value: str() of a string is the string itself
FormatStr(v) == IF v.kind = "str" THEN v.s ELSE ToString(v.n)

\* make_uri entering the globally addressable entities in the table as well
make_uri_GlobalCounts(hs, pfx, v) ==
  IF IsGlobalFunction(v)
    THEN [uri |-> "functions:" \o FormatStr(GetAttr(v, "name")),
          hashes |-> LookupId(hs, IdentityHash(v))]
  ELSE IF IsGlobalLocation(v)
    THEN [uri |-> "<file://" \o FormatStr(GetAttr(v, "file")) \o "#"
                    \o FormatStr(GetAttr(v, "line")) \o ">",
          hashes |-> LookupId(hs, IdentityHash(v))]
  ELSE With(IdentityHash(v), LAMBDA h :
       With(LookupId(hs, h), LAMBDA hs2 :
         [uri |-> ScopedUri(pfx, TypeName(v), hs2[h]), hashes |-> hs2]))

\* make_uri with the URI of a function declaration scoped by the prefix
make_uri_PrefixedFunction(hs, pfx, v) ==
  IF IsGlobalFunction(v)
    THEN [uri |-> pfx \o ":" \o FormatStr(GetAttr(v, "name")), hashes |-> hs]
  ELSE IF IsGlobalLocation(v)
    THEN [uri |-> "<file://" \o FormatStr(GetAttr(v, "file")) \o "#"
                    \o FormatStr(GetAttr(v, "line")) \o ">",
          hashes |-> hs]
  ELSE With(IdentityHash(v), LAMBDA h :
       With(LookupId(hs, h), LAMBDA hs2 :
         [uri |-> ScopedUri(pfx, TypeName(v), hs2[h]), hashes |-> hs2]))

\* make_uri(obj) run on the table hs: the URI and the table afterwards
make_uri(hs, pfx, v) ==
  IF IsGlobalFunction(v)
    THEN [uri |-> "functions:" \o FormatStr(GetAttr(v, "name")), hashes |-> hs]
  ELSE IF IsGlobalLocation(v)
    THEN [uri |-> "<file://" \o FormatStr(GetAttr(v, "file")) \o "#"
                    \o FormatStr(GetAttr(v, "line")) \o ">",
          hashes |-> hs]
  ELSE With(IdentityHash(v), LAMBDA h :
       With(LookupId(hs, h), LAMBDA hs2 :
         [uri |-> ScopedUri(pfx, TypeName(v), hs2[h]), hashes |-> hs2]))

---------------------------------------------------------------------------
(* repr_literal, repr_obj *)

\* repr_literal(obj): ok = FALSE stands for the returned None
repr_literal(v) ==
  CASE v.kind = "bool" -> [ok |-> TRUE, r |-> IF v.n = 1 THEN "true" ELSE "false"]
    [] v.kind = "int" -> [ok |-> TRUE, r |-> ToString(v.n)]
    [] v.kind = "str" -> [ok |-> TRUE, r |-> "'" \o v.s \o "'"]
    [] OTHER -> [ok |-> FALSE, r |-> ""]

\* " ".join(rs)
RECURSIVE Join(_)
Join(rs) ==
  IF Len(rs) = 0 THEN ""
  ELSE IF Len(rs) = 1 THEN rs[1]
  ELSE rs[1] \o " " \o Join(Tail(rs))

\* a test that takes no sequence as empty
IsEmptySequence_Never(v) == FALSE

\* len(obj) == 0
IsEmptySequence(v) == Len(v.elems) = 0

\* repr_obj(obj) run in context c = [hashes, calls]: the representation r, the
\* classification t and the context afterwards; calls collects every
\* <<object, uri>> that make_uri returned
RECURSIVE repr_obj(_, _, _)
RECURSIVE ReprElems(_, _, _)

\* the generator expression of the join: repr_obj(e)[0] for e in obj, left to right
ReprElems(c, pfx, es) ==
  IF es = <<>> THEN [rs |-> <<>>, c |-> c]
  ELSE With(repr_obj(c, pfx, Head(es)), LAMBDA first :
       With(ReprElems(first.c, pfx, Tail(es)), LAMBDA rest :
         [rs |-> <<first.r>> \o rest.rs, c |-> rest.c]))

repr_obj(c, pfx, v) ==
  IF repr_literal(v).ok THEN [r |-> repr_literal(v).r, t |-> "literal", c |-> c]
  ELSE IF v.kind = "list" THEN
    IF IsEmptySequence(v) THEN [r |-> "nil", t |-> "literal", c |-> c]
    ELSE With(ReprElems(c, pfx, v.elems), LAMBDA res :
           [r |-> "(" \o Join(res.rs) \o ")", t |-> "list", c |-> res.c])
  ELSE With(make_uri(c.hashes, pfx, v), LAMBDA m :
         [r |-> m.uri, t |-> "node",
          c |-> [hashes |-> m.hashes, calls |-> c.calls \cup {<<v, m.uri>>}]])

---------------------------------------------------------------------------
(* iter_relevant_props *)

IsCallable(v) == v.kind = "callable"

\* a policy that lets every property of every type through
Whitelisted_AnyType(t, p) == TRUE

\* WHITELIST[type(obj)] is ALL or p in WHITELIST[type(obj)]; a KeyError passes
Whitelisted(t, p) ==
  /\ t \in DOMAIN WHITELIST
  /\ \/ WHITELIST[t] = ALL
     \/ \E i \in DOMAIN WHITELIST[t] : WHITELIST[t][i] = p

\* every whitelisted property taken as expressed
Express_Always(t, p) == TRUE

\* express = not (type(obj), p) in SHOULD_BE_SUPPRESSED
Express(t, p) == <<t, p>> \notin SHOULD_BE_SUPPRESSED

\* the triples taken in the order in which the whitelist names the properties
iter_relevant_props_DeclaredOrder(v) ==
  IF v.kind # "ref" \/ TypeName(v) \notin DOMAIN WHITELIST THEN <<>>
  ELSE With(SelectSeq(WHITELIST[TypeName(v)], LAMBDA p :
                 /\ HasAttr(v, p)
                 /\ p \notin BLACKLIST
                 /\ ~IsCallable(GetAttr(v, p))
                 /\ GetAttr(v, p) # None),
            LAMBDA names :
              [i \in DOMAIN names |->
                 [prop |-> names[i], value |-> GetAttr(v, names[i]),
                  express |-> Express(TypeName(v), names[i])]])

\* the (prop, value, express) triples iter_relevant_props(obj) yields, in order;
\* the name yielded with express = False is p[1:-1], which no caller reads
iter_relevant_props(v) ==
  IF v.kind # "ref" THEN <<>>
  ELSE With(SelectSeq(Dir(TypeName(v)), LAMBDA p :
                 /\ p \notin BLACKLIST
                 /\ ~IsCallable(GetAttr(v, p))
                 /\ GetAttr(v, p) # None
                 /\ Whitelisted(TypeName(v), p)),
            LAMBDA names :
              [i \in DOMAIN names |->
                 [prop |-> names[i], value |-> GetAttr(v, names[i]),
                  express |-> Express(TypeName(v), names[i])]])

---------------------------------------------------------------------------
(* solve_node, yield_triples and the body of iter_triples *)

\* a type test that never recognises a blacklisted type
IsTypeBlacklisted_Never(v) == FALSE

\* isinstance(obj, TYPE_BLACKLIST)
IsTypeBlacklisted(v) == TypeName(v) \in TYPE_BLACKLIST

\* a membership test that finds nothing
InClosed_Never(cl, r) == FALSE

\* r in closed
InClosed(cl, r) == \E i \in DOMAIN cl : cl[i].uri = r

\* a registration that is lost
Register_Lost(cl, r, v) == cl

\* closed[r] = obj, for an r that is not yet a key: a new last entry
Register(cl, r, v) == Append(cl, [uri |-> r, obj |-> v])

\* closed.values() walked from the newest entry
ClosedValues_Reversed(cl) == [i \in DOMAIN cl |-> cl[Len(cl) + 1 - i].obj]

\* closed.values(), in insertion order
ClosedValues(cl) == [i \in DOMAIN cl |-> cl[i].obj]

\* a list whose entries are not pushed
ListEntries_Dropped(v) == <<>>

\* the entries pushed for a list: for entry in obj: open.append(entry)
ListEntries(v) == v.elems

\* a node whose property values are not pushed
PropEntries_Nothing(v) == <<>>

\* the entries pushed for a node: the value of every relevant property
PropEntries(v) ==
  With(iter_relevant_props(v), LAMBDA ps : [i \in DOMAIN ps |-> ps[i].value])

\* solve_node(obj) on the state s = [open, closed, c]: the state afterwards
solve_node(s, pfx, v) ==
  IF IsTypeBlacklisted(v) THEN s
  ELSE With(repr_obj(s.c, pfx, v), LAMBDA res :
    IF res.t = "literal" THEN [s EXCEPT !.c = res.c]
    ELSE IF res.t = "list"
      THEN [s EXCEPT !.c = res.c, !.open = s.open \o ListEntries(v)]
    ELSE IF InClosed(s.closed, res.r) THEN [s EXCEPT !.c = res.c]
    ELSE [open |-> s.open \o PropEntries(v),
          closed |-> Register(s.closed, res.r, v),
          c |-> res.c])

is_rdf_none(v) == v = None

\* "{} a gcc:{}.".format(rn, type(node).__name__)
TypeStatement(rn, v) ==
  [text |-> rn \o " a gcc:" \o TypeName(v) \o ".",
   subj |-> rn, pred |-> "a", obj |-> "gcc:" \o TypeName(v), node |-> v, value |-> v]

\* "{} gcc:{} {}.".format(rn, prop, r)
PropStatement(rn, v, prop, r, value) ==
  [text |-> rn \o " gcc:" \o prop \o " " \o r \o ".",
   subj |-> rn, pred |-> prop, obj |-> r, node |-> v, value |-> value]

\* the property statements of yield_triples(node) for the triples ps, run in
\* context c: the statements and the context afterwards
RECURSIVE YieldProps(_, _, _, _, _)
YieldProps(c, pfx, rn, v, ps) ==
  IF ps = <<>> THEN [sts |-> <<>>, c |-> c]
  ELSE With(Head(ps), LAMBDA p :
    IF p.express /\ ~is_rdf_none(p.value)
      THEN With(repr_obj(c, pfx, p.value), LAMBDA res :
           With(YieldProps(res.c, pfx, rn, v, Tail(ps)), LAMBDA rest :
             [sts |-> <<PropStatement(rn, v, p.prop, res.r, p.value)>> \o rest.sts,
              c |-> rest.c]))
      ELSE YieldProps(c, pfx, rn, v, Tail(ps)))

\* yield_triples(node) run in context c
yield_triples(c, pfx, v) ==
  With(repr_obj(c, pfx, v), LAMBDA res :
  With(iter_relevant_props(v), LAMBDA ps :
  With(YieldProps(res.c, pfx, res.r, v, ps), LAMBDA props :
    [sts |-> <<TypeStatement(res.r, v)>> \o props.sts, c |-> props.c])))

---------------------------------------------------------------------------
(* Input graphs *)

\* an object of type t: every attribute dir() lists is None unless as sets it
Obj(t, as) ==
  [type |-> t,
   attrs |-> [p \in {Dir(t)[i] : i \in DOMAIN Dir(t)} |->
                IF p \in DOMAIN as THEN as[p] ELSE None]]

Types == {"BasicBlock", "Edge", "GimpleAssign", "FunctionDecl", "Location", "PointerType"}

\* the attributes that carry the identity of an object of type t, for key k
KeyAttrs(t, k) ==
  CASE t = "BasicBlock" -> ("index" :> PyInt(k))
    [] t = "GimpleAssign" -> ("str_no_uid" :> Text(k))
    [] t = "PointerType" -> ("str_no_uid" :> Text(k))
    [] t = "FunctionDecl" -> ("name" :> PyStr("f" \o ToString(k)) @@ "str_no_uid" :> Text(k))
    [] t = "Location" -> ("file" :> PyStr("a.c") @@ "line" :> PyInt(k) @@ "column" :> PyInt(1))
    [] t = "ResultDecl" -> ("name" :> PyStr("r" \o ToString(k)) @@ "str_no_uid" :> Text(k))
    [] OTHER -> <<>>

\* the two attributes of type t through which the graphs link objects
Slots(t) ==
  CASE t = "BasicBlock" -> <<"gimple", "succs">>
    [] t = "Edge" -> <<"dest", "src">>
    [] t = "GimpleAssign" -> <<"lhs", "rhs">>
    [] t = "FunctionDecl" -> <<"arguments", "result">>
    [] t = "PointerType" -> <<"dereference", "sizeof">>
    [] t = "ResultDecl" -> <<"type", "location">>
    [] OTHER -> <<>>

Template(t, k, vs) ==
  IF Slots(t) = <<>> THEN Obj(t, KeyAttrs(t, k))
  ELSE Obj(t, KeyAttrs(t, k) @@ (Slots(t)[1] :> vs[1]) @@ (Slots(t)[2] :> vs[2]))

\* the ordered sequences of 1..MaxLen elements over es
RECURSIVE SeqsUpTo(_, _)
SeqsUpTo(es, n) ==
  IF n = 0 THEN {<<>>}
  ELSE LET shorter == SeqsUpTo(es, n - 1)
       IN shorter \cup {Append(q, e) : q \in {r \in shorter : Len(r) = n - 1}, e \in es}

Lists == {List(q) : q \in SeqsUpTo({None, Ref(3)}, MaxLen) \ {<<>>}}

\* what the two link attributes of object 1 hold
Links1 ==
  {<<None, None>>, <<Ref(2), None>>, <<None, Ref(2)>>, <<Ref(2), Ref(3)>>,
   <<Ref(1), Method>>, <<List(<<>>), PyInt(7)>>,
   <<List(<<Ref(2), Ref(3)>>), None>>,
   <<List(<<List(<<Ref(3)>>), Ref(2)>>), PyBool(TRUE)>>}
  \cup {<<l, None>> : l \in Lists}
Links2 == {<<None, None>>, <<Ref(3), None>>, <<Ref(1), Ref(3)>>}
Links3 == {<<None, None>>, <<Ref(1), None>>}

Templates(ts, ks, ls) ==
  {Template(t, k, l) : t \in {x \in ts : Slots(x) # <<>>}, k \in ks, l \in ls}
  \cup {Template(t, k, <<>>) : t \in {x \in ts : Slots(x) = <<>>}, k \in ks}

\* object 1 is the root, object 2 any object, object 3 an object of the type
\* of object 2, a blacklisted leaf, an admitted leaf or an object of a type
\* the whitelist has no entry for
Heaps ==
  UNION { { [i \in Objs |-> IF i = 1 THEN o1 ELSE IF i = 2 THEN o2 ELSE o3] :
              o1 \in Templates(Types \ {"PointerType"}, {0}, Links1)
                       \cup Templates({"PointerType"}, {0}, Links2),
              o3 \in Templates({o2.type}, {1, HashSpace}, Links3)
                       \cup Templates({"PointerType", "Edge"}, {1}, {<<None, None>>})
                       \cup Templates({"ResultDecl"}, {1}, {<<Ref(2), None>>}) } :
          o2 \in Templates(Types, {0, 1}, Links2) }

Prefixes == {"p"}

Roots == {Ref(1), None}

---------------------------------------------------------------------------
(* The state machine *)

Init ==
  /\ heap \in Heaps
  /\ prefix = ""
  /\ start = None
  /\ open = <<>>
  /\ closed = <<>>
  /\ hashes = <<>>
  /\ out = <<>>
  /\ pc = "idle"
  /\ pos = 0
  /\ minted = {}
  /\ runs = <<>>

\* an invocation that goes on with the identity table of the one before
IterTriples_KeepTable(pfx, root) ==
  /\ pc = "idle"
  /\ prefix' = pfx
  /\ start' = root
  /\ open' = <<root>>
  /\ closed' = <<>>
  /\ hashes' = hashes
  /\ pc' = "solve"
  /\ UNCHANGED <<heap, out, pos, minted, runs>>

\* iter_triples(prefix, start) up to the worklist loop
IterTriples(pfx, root) ==
  /\ pc = "idle"
  /\ prefix' = pfx
  /\ start' = root
  /\ open' = <<root>>
  /\ closed' = <<>>
  /\ hashes' = <<>>
  /\ pc' = "solve"
  /\ UNCHANGED <<heap, out, pos, minted, runs>>

\* one pass of the loop: node = open.pop(); solve_node(node)
SolveNode ==
  /\ pc = "solve"
  /\ Len(open) > 0
  /\ Len(open) <= MaxOpen
  /\ \E s \in {solve_node([open |-> SubSeq(open, 1, Len(open) - 1),
                            closed |-> closed,
                            c |-> [hashes |-> hashes, calls |-> {}]],
                           prefix, open[Len(open)])} :
       /\ open' = s.open
       /\ closed' = s.closed
       /\ hashes' = s.c.hashes
       /\ minted' = minted \cup s.c.calls
  /\ UNCHANGED <<heap, prefix, start, out, pc, pos, runs>>

\* one pass of the second loop: yield from yield_triples(node) for the next
\* node of closed.values()
YieldTriples ==
  /\ pc = "solve"
  /\ Len(open) = 0
  /\ pos < Len(closed)
  /\ \E y \in {yield_triples([hashes |-> hashes, calls |-> {}], prefix,
                              ClosedValues(closed)[pos + 1])} :
       /\ out' = out \o y.sts
       /\ hashes' = y.c.hashes
       /\ minted' = minted \cup y.c.calls
  /\ pos' = pos + 1
  /\ UNCHANGED <<heap, prefix, start, open, closed, pc, runs>>

\* the generator is exhausted: del closed
Finish ==
  /\ pc = "solve"
  /\ Len(open) = 0
  /\ pos = Len(closed)
  /\ pc' = "done"
  /\ UNCHANGED <<heap, prefix, start, open, closed, hashes, out, pos, minted, runs>>

Next ==
  \/ \E pfx \in Prefixes, root \in Roots : IterTriples(pfx, root)
  \/ SolveNode
  \/ YieldTriples
  \/ Finish

Spec == Init /\ [][Next]_vars

\* the code is sequential and runs without suspension: a step that can be
\* taken is taken
LiveSpec == Spec /\ WF_vars(Next)

---------------------------------------------------------------------------
(* A session: ShowGimple.execute runs iter_triples once per function *)

\* a location like o in another column
Recolumn(o) ==
  IF o.type = "Location"
    THEN [o EXCEPT !.attrs = [@ EXCEPT !["column"] = PyInt(2)]]
    ELSE o

\* what the two link attributes of object 1 hold in a session
SessionLinks == {<<Ref(2), Ref(3)>>, <<Ref(3), Ref(2)>>, <<List(<<Ref(3), Ref(2)>>), None>>}

\* object 1 is a prefix-scoped node that refers to objects 2 and 3, which are
\* two declarations or two locations, or a declaration or location and a
\* prefix-scoped leaf
SessionHeaps ==
  UNION { { [i \in Objs |-> IF i = 1 THEN o1 ELSE IF i = 2 THEN o2 ELSE Recolumn(o3)] :
              o1 \in Templates({"GimpleAssign", "Edge"}, {0}, SessionLinks),
              o3 \in Templates({o2.type}, {1, HashSpace}, {<<None, None>>})
                       \cup Templates({"Edge", "Location"}, {1}, {<<None, None>>}) } :
          o2 \in Templates({"FunctionDecl", "Location"}, {0, 1}, Links2) }

SessionPrefixes == {"p", "q"}

SessionRoots == {Ref(1), Ref(2)}

SessionInit ==
  /\ heap \in SessionHeaps
  /\ prefix = ""
  /\ start = None
  /\ open = <<>>
  /\ closed = <<>>
  /\ hashes = <<>>
  /\ out = <<>>
  /\ pc = "idle"
  /\ pos = 0
  /\ minted = {}
  /\ runs = <<>>

\* the for loop of execute has printed every line and execute returns; the
\* names open, closed and hashes are bound anew by the next invocation
Return ==
  /\ pc = "done"
  /\ Len(runs) < MaxRuns - 1
  /\ runs' = Append(runs, [prefix |-> prefix, start |-> start, out |-> out,
                            minted |-> minted, hashes |-> hashes])
  /\ out' = <<>>
  /\ pos' = 0
  /\ minted' = {}
  /\ pc' = "idle"
  /\ UNCHANGED <<heap, prefix, start, open, closed, hashes>>

SessionNext ==
  \/ \E pfx \in SessionPrefixes, root \in SessionRoots : IterTriples(pfx, root)
  \/ SolveNode
  \/ YieldTriples
  \/ Finish
  \/ Return

SessionSpec == SessionInit /\ [][SessionNext]_vars

---------------------------------------------------------------------------
(* Vocabulary of the properties *)

Done == pc = "done"

\* an entity the traversal admits: an object whose type is not blacklisted
Admitted(v) == v.kind = "ref" /\ ~IsTypeBlacklisted(v)

\* an object whose URI is scoped by the prefix and numbered by the table
PrefixScoped(v) == v.kind = "ref" /\ ~IsGlobalFunction(v) /\ ~IsGlobalLocation(v)

OutTexts == {out[i].text : i \in DOMAIN out}

ClosedUris == {closed[i].uri : i \in DOMAIN closed}

\* two values are one identity: same runtime type and same identity key
SameIdentity(v, w) == TypeName(v) = TypeName(w) /\ IdentityKey(v) = IdentityKey(w)

\* the two-node scenario: the root A has one relevant property, it is emitted
\* and refers to another identity B, and B has no relevant property
TwoNodeCase ==
  /\ Done
  /\ Admitted(start) /\ PrefixScoped(start)
  /\ Len(iter_relevant_props(start)) = 1
  /\ LET nxt == iter_relevant_props(start)[1] IN
       /\ nxt.express
       /\ Admitted(nxt.value) /\ PrefixScoped(nxt.value)
       /\ ~SameIdentity(nxt.value, start)
       /\ iter_relevant_props(nxt.value) = <<>>

\* the three statements of the two-node scenario when B is numbered k
TwoNodeTexts(k) ==
  LET nxt == iter_relevant_props(start)[1]
      ta == TypeName(start)
      tb == TypeName(nxt.value)
  IN {prefix \o ":" \o ta \o "_1 a gcc:" \o ta \o ".",
      prefix \o ":" \o ta \o "_1 gcc:" \o nxt.prop \o " " \o prefix \o ":" \o tb \o "_" \o ToString(k) \o ".",
      prefix \o ":" \o tb \o "_" \o ToString(k) \o " a gcc:" \o tb \o "."}

\* C1 as stated: the two-node scenario yields exactly the three statements
\* with A numbered 1 and B numbered 1
C1_AsStated ==
  TwoNodeCase => (Len(out) = 3 /\ OutTexts = TwoNodeTexts(1))

\* C1: in the two-node scenario the output is exactly A's type statement, A's
\* property statement and B's type statement, with A numbered 1 and B numbered
\* 2 when the identity hashes of A and B differ (the table numbers all types
\* together), and B numbered 1 when the hashes are equal and the types differ
C1_TwoNode ==
  TwoNodeCase =>
    LET b == iter_relevant_props(start)[1].value IN
      /\ IdentityHash(start) # IdentityHash(b)
           => (Len(out) = 3 /\ OutTexts = TwoNodeTexts(2))
      /\ (IdentityHash(start) = IdentityHash(b) /\ TypeName(start) # TypeName(b))
           => (Len(out) = 3 /\ OutTexts = TwoNodeTexts(1))

C1_Witness ==
  /\ TwoNodeCase
  /\ IdentityHash(start) # IdentityHash(iter_relevant_props(start)[1].value)
  /\ Len(out) = 3

---------------------------------------------------------------------------
(* C2: omission *)

BlacklistedType(v) == TypeName(v) \in TYPE_BLACKLIST

\* the properties of v that the policy lets through to emission
EmissionEligible(v) ==
  {p \in DOMAIN heap[v.n].attrs :
     /\ p \notin BLACKLIST
     /\ TypeName(v) \in DOMAIN WHITELIST
     /\ \E i \in DOMAIN WHITELIST[TypeName(v)] : WHITELIST[TypeName(v)][i] = p
     /\ <<TypeName(v), p>> \notin SHOULD_BE_SUPPRESSED}

HasStatement(subj, pred) ==
  \E k \in DOMAIN out : out[k].subj = subj /\ out[k].pred = pred

\* C2 as stated: for every registered entity and every emission-eligible
\* property of it whose value is null or an entity of a blacklisted type, the
\* output holds no statement of that entity with that property
C2_AsStated ==
  \A i \in DOMAIN closed :
    closed[i].obj.kind = "ref" =>
      \A p \in EmissionEligible(closed[i].obj) :
        LET value == GetAttr(closed[i].obj, p) IN
          (value = None \/ BlacklistedType(value))
            => ~HasStatement(closed[i].uri, p)

---------------------------------------------------------------------------
(* C3: blacklisted types *)

\* C3: an entity of a blacklisted type is never registered in closed and never
\* the subject of a statement, and the pass of the loop that pops it only
\* removes it: nothing is pushed and nothing is registered
C3_BlacklistedCutOff ==
  /\ [](/\ \A i \in DOMAIN closed : ~BlacklistedType(closed[i].obj)
        /\ \A k \in DOMAIN out : ~BlacklistedType(out[k].node)
        /\ \A c \in minted :
             BlacklistedType(c[1]) =>
               /\ c[2] \notin ClosedUris
               /\ \A k \in DOMAIN out : out[k].subj # c[2])
  /\ [][(/\ pc = "solve" /\ Len(open) > 0
         /\ BlacklistedType(open[Len(open)])
         /\ open' # open)
        => (/\ open' = SubSeq(open, 1, Len(open) - 1)
            /\ closed' = closed)]_vars

\* a blacklisted object was pushed as the value of a traversed property (or as
\* an element of a list held by one) and popped, and the admitted object it
\* refers to was left unregistered
C3_Witness ==
  /\ Done
  /\ \E i \in DOMAIN closed : \E k \in DOMAIN PropEntries(closed[i].obj) :
       LET w == PropEntries(closed[i].obj)[k]
           vs == IF w.kind = "list" THEN {w.elems[j] : j \in DOMAIN w.elems} ELSE {w}
       IN \E v \in vs :
            /\ v.kind = "ref" /\ BlacklistedType(v)
            /\ \E p \in DOMAIN heap[v.n].attrs :
                 /\ heap[v.n].attrs[p].kind = "ref"
                 /\ ~BlacklistedType(heap[v.n].attrs[p])
                 /\ \A j \in DOMAIN closed : closed[j].obj # heap[v.n].attrs[p]

---------------------------------------------------------------------------
(* C4: suppression *)

\* the entities a value hands to the worklist: itself, or the elements of a list
RECURSIVE Leaves(_)
Leaves(v) ==
  IF v.kind = "list" THEN UNION {Leaves(v.elems[j]) : j \in DOMAIN v.elems} ELSE {v}

\* the suppressed properties of v that hold a value
SuppressedProps(v) ==
  {p \in DOMAIN heap[v.n].attrs :
     /\ <<TypeName(v), p>> \in SHOULD_BE_SUPPRESSED
     /\ GetAttr(v, p) # None
     /\ GetAttr(v, p).kind # "callable"}

\* v has a URI that is a key of closed, with its type statement in the output
RegisteredAndTyped(v) ==
  \E c \in minted :
    /\ c[1] = v
    /\ c[2] \in ClosedUris
    /\ (c[2] \o " a gcc:" \o TypeName(v) \o ".") \in OutTexts

\* C4: no statement has a property suppressed for the type of its subject as
\* predicate; the pass that registers an entity pushes the value of each of its
\* suppressed properties; and when the run is over every admitted node held by
\* a suppressed property of a registered entity is registered and has its own
\* type statement
C4_Suppression ==
  /\ [](/\ \A k \in DOMAIN out :
             <<TypeName(out[k].node), out[k].pred>> \notin SHOULD_BE_SUPPRESSED
        /\ Done =>
             \A i \in DOMAIN closed :
               closed[i].obj.kind = "ref" =>
                 \A p \in SuppressedProps(closed[i].obj) :
                   \A v \in Leaves(GetAttr(closed[i].obj, p)) :
                     (v.kind = "ref" /\ ~BlacklistedType(v)) => RegisteredAndTyped(v))
  /\ [][Len(closed') > Len(closed) =>
          LET v == closed'[Len(closed')].obj IN
            v.kind = "ref" =>
              \A p \in SuppressedProps(v) :
                \E k \in DOMAIN open' : k >= Len(open) /\ open'[k] = GetAttr(v, p)]_vars

\* a registered basic block whose only traversed property is suppressed holds
\* an admitted node, which no other registered entity refers to
C4_Witness ==
  /\ Done
  /\ \E i \in DOMAIN closed :
       LET v == closed[i].obj IN
         /\ v.kind = "ref"
         /\ Len(iter_relevant_props(v)) = 1
         /\ \E p \in SuppressedProps(v) :
              LET w == GetAttr(v, p) IN
                /\ w.kind = "ref" /\ ~BlacklistedType(w) /\ w # v
                /\ RegisteredAndTyped(w)
                /\ \A j \in DOMAIN closed :
                     j # i => \A k \in DOMAIN PropEntries(closed[j].obj) :
                                w \notin Leaves(PropEntries(closed[j].obj)[k])

---------------------------------------------------------------------------
(* C5: idempotent minting *)

\* C5: all calls of make_uri on one value return one string: the calls made
\* when the value is popped, when it is rendered as an object or as an element
\* of a list, and when its statements are emitted. So the subject of every
\* statement is the key under which its node is registered, and a node that is
\* the object of a statement is rendered as the URI minted for it elsewhere
C5_IdempotentMinting ==
  /\ \A c1, c2 \in minted : c1[1] = c2[1] => c1[2] = c2[2]
  /\ \A i \in DOMAIN closed : <<closed[i].obj, closed[i].uri>> \in minted
  /\ \A k \in DOMAIN out :
       /\ \E i \in DOMAIN closed :
            closed[i].obj = out[k].node /\ closed[i].uri = out[k].subj
       /\ (out[k].pred # "a" /\ out[k].value.kind \in {"ref", "none"})
            => <<out[k].value, out[k].obj>> \in minted

\* a node was minted when registered, again as the object of a statement and
\* again as the subject of its own, with other identities minted in between
C5_Witness ==
  /\ Done
  /\ Cardinality(DOMAIN hashes) >= 2
  /\ \E k, m \in DOMAIN out :
       /\ out[k].pred # "a" /\ out[k].value.kind = "ref"
       /\ out[k].subj # out[k].obj
       /\ m > k /\ out[m].pred = "a" /\ out[m].subj = out[k].obj
       /\ \E h \in DOMAIN hashes : hashes[h] = 2 /\ h = IdentityHash(out[k].value)
       /\ PrefixScoped(out[k].value)

---------------------------------------------------------------------------
(* C6: identity injectivity *)

MintedAdmitted == {c \in minted : c[1].kind = "ref" /\ ~BlacklistedType(c[1])}

\* C6 as stated: two admitted entities of different type, or of one type with
\* different identity keys, never get the same URI
C6_AsStated ==
  \A c1, c2 \in MintedAdmitted :
    ~SameIdentity(c1[1], c2[1]) => c1[2] # c2[2]

\* C6: two admitted entities get different URIs when their types differ, when
\* they are globally addressable with different identity keys, or when they are
\* prefix-scoped with different identity hashes
C6_Injectivity ==
  \A c1, c2 \in MintedAdmitted :
    (\/ TypeName(c1[1]) # TypeName(c2[1])
     \/ /\ ~PrefixScoped(c1[1])
        /\ IdentityKey(c1[1]) # IdentityKey(c2[1])
     \/ /\ PrefixScoped(c1[1])
        /\ IdentityHash(c1[1]) # IdentityHash(c2[1]))
      => c1[2] # c2[2]

\* three admitted identities are minted: two of one type with different
\* hashes, and one of another type whose hash is that of one of the two
C6_Witness ==
  \E c1, c2, c3 \in MintedAdmitted :
    /\ TypeName(c1[1]) = TypeName(c2[1])
    /\ PrefixScoped(c1[1])
    /\ IdentityHash(c1[1]) # IdentityHash(c2[1])
    /\ TypeName(c3[1]) # TypeName(c1[1])
    /\ PrefixScoped(c3[1])
    /\ IdentityHash(c3[1]) = IdentityHash(c1[1])

---------------------------------------------------------------------------
(* C7: termination *)

\* the nodes that the traversed properties of v hand to the worklist
Successors(v) ==
  UNION {Leaves(PropEntries(v)[k]) : k \in DOMAIN PropEntries(v)}

\* C7: in every run the worklist eventually is empty and the run ends
C7_Termination == <>(Done /\ Len(open) = 0)

\* a run over a graph with a cycle between two registered nodes, one of them
\* also pushed along a second path, has ended
C7_Witness ==
  /\ Done
  /\ \E i, j \in DOMAIN closed :
       /\ i # j
       /\ closed[j].obj \in Successors(closed[i].obj)
       /\ closed[i].obj \in Successors(closed[j].obj)
       /\ \E m \in DOMAIN closed :
            m # i /\ m # j /\ closed[m].obj \in Successors(closed[i].obj)
                           /\ closed[m].obj \in Successors(closed[j].obj)

---------------------------------------------------------------------------
(* C8: the list scenario *)

\* the root A has one relevant property, it is emitted and holds a sequence of
\* two nodes of one admitted type TypeB, which are two identities other than A
\* and have no relevant property
ListCase ==
  /\ Done
  /\ Admitted(start) /\ PrefixScoped(start)
  /\ Len(iter_relevant_props(start)) = 1
  /\ LET q == iter_relevant_props(start)[1] IN
       /\ q.express
       /\ q.value.kind = "list" /\ Len(q.value.elems) = 2
       /\ \A j \in 1..2 :
            /\ Admitted(q.value.elems[j]) /\ PrefixScoped(q.value.elems[j])
            /\ ~SameIdentity(q.value.elems[j], start)
            /\ iter_relevant_props(q.value.elems[j]) = <<>>
       /\ TypeName(q.value.elems[1]) = TypeName(q.value.elems[2])
       /\ ~SameIdentity(q.value.elems[1], q.value.elems[2])

ListElem(j) == iter_relevant_props(start)[1].value.elems[j]

\* the statement of the root's property when its object is rendered as obj
ListStatement(obj) ==
  prefix \o ":" \o TypeName(start) \o "_1 gcc:" \o iter_relevant_props(start)[1].prop
    \o " " \o obj \o "."

NoListIsNode ==
  /\ \A c \in minted : c[1].kind # "list"
  /\ \A i \in DOMAIN closed : closed[i].obj.kind # "list"

\* C8 as stated, for a root and elements of pairwise different identity hash:
\* the object is rendered as ( p:TypeB_1 p:TypeB_2 ), the sequence is no node,
\* both elements are registered and typed
C8_AsStated ==
  (/\ ListCase
   /\ IdentityHash(ListElem(1)) # IdentityHash(ListElem(2))
   /\ IdentityHash(ListElem(1)) # IdentityHash(start)
   /\ IdentityHash(ListElem(2)) # IdentityHash(start)) =>
    /\ ListStatement("( " \o prefix \o ":" \o TypeName(ListElem(1)) \o "_1 "
                     \o prefix \o ":" \o TypeName(ListElem(2)) \o "_2 )") \in OutTexts
    /\ NoListIsNode
    /\ RegisteredAndTyped(ListElem(1)) /\ RegisteredAndTyped(ListElem(2))

\* C8: in the list scenario the object of the property statement is the URIs
\* of the two elements in element order, separated by one space and enclosed
\* in parentheses without padding; when the identity hashes of the root and
\* the elements are pairwise different it is (p:TypeB_2 p:TypeB_3), the root
\* being numbered 1 by the same table; the sequence gets no URI and no closed
\* entry; both elements are registered and have their type statements
C8_ListScenario ==
  ListCase =>
    /\ \E c1, c2 \in minted :
         /\ c1[1] = ListElem(1) /\ c2[1] = ListElem(2)
         /\ ListStatement("(" \o c1[2] \o " " \o c2[2] \o ")") \in OutTexts
    /\ (/\ IdentityHash(ListElem(1)) # IdentityHash(ListElem(2))
        /\ IdentityHash(ListElem(1)) # IdentityHash(start)
        /\ IdentityHash(ListElem(2)) # IdentityHash(start))
         => ListStatement("(" \o prefix \o ":" \o TypeName(ListElem(1)) \o "_2 "
                          \o prefix \o ":" \o TypeName(ListElem(2)) \o "_3)") \in OutTexts
    /\ NoListIsNode
    /\ RegisteredAndTyped(ListElem(1)) /\ RegisteredAndTyped(ListElem(2))
    /\ Len(out) = Len(closed) + 1

C8_Witness ==
  /\ ListCase
  /\ IdentityHash(ListElem(1)) # IdentityHash(ListElem(2))
  /\ IdentityHash(ListElem(1)) # IdentityHash(start)
  /\ IdentityHash(ListElem(2)) # IdentityHash(start)
  /\ Len(closed) = 3

---------------------------------------------------------------------------
(* C9: null *)

\* C9 as stated: no URI is minted for None, None is not registered, and None is
\* neither the subject of a statement nor rendered in the object of one
C9_AsStated ==
  /\ \A c \in minted : c[1] # None
  /\ \A i \in DOMAIN closed : closed[i].obj # None
  /\ \A k \in DOMAIN out :
       /\ out[k].node # None
       /\ out[k].pred # "a" => None \notin Leaves(out[k].value)

---------------------------------------------------------------------------
(* C10: emission order *)

TypeStatements == SelectSeq(out, LAMBDA st : st.pred = "a")

\* C10: while the worklist is not empty nothing is emitted; the type statements
\* of the output are, in order, those of the closed entries in registration
\* order, one for each entry served so far and for every entry when the run is
\* over; every property statement directly follows a statement of the same
\* subject, so the statements of an entity are contiguous and begin with its
\* type statement
C10_EmissionOrder ==
  /\ Len(open) > 0 => out = <<>>
  /\ pc = "idle" => out = <<>>
  /\ Len(TypeStatements) = pos
  /\ pos <= Len(closed)
  /\ Done => pos = Len(closed)
  /\ \A i \in 1..pos :
       /\ i <= Len(closed)
       /\ TypeStatements[i].subj = closed[i].uri
       /\ TypeStatements[i].text =
            closed[i].uri \o " a gcc:" \o TypeName(closed[i].obj) \o "."
  /\ \A k \in DOMAIN out :
       out[k].pred # "a" => (k > 1 /\ out[k - 1].subj = out[k].subj)

\* three entities are registered and serialised, one of them with two
\* property statements
C10_Witness ==
  /\ Done
  /\ Len(closed) = 3
  /\ \E k \in DOMAIN out :
       /\ k + 1 \in DOMAIN out
       /\ out[k].pred # "a" /\ out[k + 1].pred # "a"
  /\ out[Len(out)].pred # "a"

---------------------------------------------------------------------------
(* C11: order of the property statements *)

\* the names the policy lists for the type of v, in the order it declares them
DeclaredNames(v) ==
  IF TypeName(v) \in DOMAIN WHITELIST /\ WHITELIST[TypeName(v)] # ALL
    THEN WHITELIST[TypeName(v)] ELSE <<>>

\* property p of v holds a value and the policy lets it through to emission
Emitted(v, p) ==
  /\ v.kind = "ref"
  /\ p \in EmissionEligible(v)
  /\ GetAttr(v, p) # None
  /\ GetAttr(v, p).kind # "callable"

\* the predicates of the property statements of closed entry i, in output order
PredsOf(i) ==
  LET sts == SelectSeq(out, LAMBDA st : st.subj = closed[i].uri /\ st.pred # "a")
  IN [k \in DOMAIN sts |-> sts[k].pred]

\* C11 as stated: the property statements of every serialised entity follow
\* the order in which the policy declares the names of its type
C11_AsStated ==
  \A i \in 1..pos :
    PredsOf(i) = SelectSeq(DeclaredNames(closed[i].obj),
                           LAMBDA p : Emitted(closed[i].obj, p))

\* C11: the property statements of every serialised entity follow reflection
\* order, the sorted order in which dir() lists the names, whatever the order
\* in which the policy declares them; the order is a function of the entity
\* and the policy alone, so it is the same on every run
C11_ReflectionOrder ==
  \A i \in 1..pos :
    PredsOf(i) = SelectSeq(Dir(TypeName(closed[i].obj)),
                           LAMBDA p : Emitted(closed[i].obj, p))

\* an edge, declared as src then dest, is serialised with dest before src
C11_Witness ==
  /\ Done
  /\ \E i \in DOMAIN closed :
       /\ TypeName(closed[i].obj) = "Edge"
       /\ PredsOf(i) = <<"dest", "src">>
       /\ DeclaredNames(closed[i].obj) = <<"src", "dest">>

---------------------------------------------------------------------------
(* C12: globally addressable identifiers *)

\* every call of make_uri of the session, with the prefix of its invocation
SessionMinted ==
  {[prefix |-> prefix, v |-> c[1], uri |-> c[2]] : c \in minted}
  \cup UNION { {[prefix |-> runs[i].prefix, v |-> c[1], uri |-> c[2]] : c \in runs[i].minted} :
               i \in DOMAIN runs }

\* C12: in all invocations of a session, whatever their prefixes and the
\* contents of their identity tables, two function declarations of one name
\* get one URI, and two source locations of one file and line get one URI
C12_GlobalUris ==
  \A m1, m2 \in SessionMinted :
    /\ (/\ IsGlobalFunction(m1.v) /\ IsGlobalFunction(m2.v)
        /\ GetAttr(m1.v, "name") = GetAttr(m2.v, "name"))
         => m1.uri = m2.uri
    /\ (/\ IsGlobalLocation(m1.v) /\ IsGlobalLocation(m2.v)
        /\ GetAttr(m1.v, "file") = GetAttr(m2.v, "file")
        /\ GetAttr(m1.v, "line") = GetAttr(m2.v, "line"))
         => m1.uri = m2.uri

\* two invocations with different prefixes and different tables have both
\* minted one function declaration and one source location
C12_Witness ==
  /\ Done
  /\ Len(runs) >= 1
  /\ runs[1].prefix # prefix
  /\ runs[1].hashes # hashes
  /\ \E c, d \in runs[1].minted \cap minted :
       IsGlobalFunction(c[1]) /\ IsGlobalLocation(d[1])

---------------------------------------------------------------------------
(* C13: fresh state per invocation, reproducible output *)

\* the identity hashes the current invocation has looked up in its table
LookedUp ==
  {IdentityHash(c[1]) : c \in {d \in minted : ~IsGlobalFunction(d[1]) /\ ~IsGlobalLocation(d[1])}}

\* C13: every invocation works on its own closed set and identity table: what
\* they hold was registered and numbered by this invocation, and a
\* prefix-scoped root is numbered 1; and any two invocations of a session with
\* the same prefix and root, whatever ran in between, yield the same sequence
\* of statements
C13_FreshAndReproducible ==
  /\ pc # "idle" =>
       /\ \A i \in DOMAIN closed : <<closed[i].obj, closed[i].uri>> \in minted
       /\ DOMAIN hashes = LookedUp
       /\ (Len(closed) >= 1 /\ PrefixScoped(start) /\ ~BlacklistedType(start))
            => closed[1].uri = prefix \o ":" \o TypeName(start) \o "_1"
  /\ \A i, j \in DOMAIN runs :
       (runs[i].prefix = runs[j].prefix /\ runs[i].start = runs[j].start)
         => runs[i].out = runs[j].out
  /\ Done =>
       \A i \in DOMAIN runs :
         (runs[i].prefix = prefix /\ runs[i].start = start) => runs[i].out = out

\* the third invocation repeats the first, after a second one with another
\* root that left another identity table and another output
C13_Witness ==
  /\ Done
  /\ Len(runs) = 2
  /\ runs[1].prefix = prefix /\ runs[1].start = start
  /\ runs[2].prefix = prefix /\ runs[2].start # start
  /\ runs[2].hashes # <<>> /\ runs[2].hashes # hashes
  /\ runs[2].out # out
  /\ Len(out) >= 3
  /\ Cardinality(DOMAIN hashes) >= 2

---------------------------------------------------------------------------
(* C14: the empty-list scenario *)

EmptyList == List(<<>>)

\* C14: a property that holds an empty sequence is rendered as nil in its
\* statement; the empty sequence gets no URI and no closed entry; and the pass
\* of the loop that pops it, classifying it as a literal, only removes it:
\* nothing is pushed, nothing is registered, the identity table is left alone
C14_EmptyList ==
  /\ [](/\ \A k \in DOMAIN out :
             (out[k].pred # "a" /\ out[k].value = EmptyList) =>
               /\ out[k].obj = "nil"
               /\ out[k].text = out[k].subj \o " gcc:" \o out[k].pred \o " nil."
        /\ \A c \in minted : c[1] # EmptyList
        /\ \A i \in DOMAIN closed : closed[i].obj # EmptyList)
  /\ [][(/\ pc = "solve" /\ Len(open) > 0
         /\ open[Len(open)] = EmptyList
         /\ open' # open)
        => (/\ open' = SubSeq(open, 1, Len(open) - 1)
            /\ closed' = closed
            /\ hashes' = hashes
            /\ minted' = minted)]_vars

\* a registered entity holds an empty sequence in an emitted property, the
\* sequence was popped and the statement printed
C14_Witness ==
  /\ Done
  /\ \E k \in DOMAIN out :
       /\ out[k].pred # "a" /\ out[k].value = EmptyList
       /\ EmptyList \in {PropEntries(out[k].node)[j] : j \in DOMAIN PropEntries(out[k].node)}
       /\ \E m \in DOMAIN out : m # k /\ out[m].subj = out[k].subj /\ out[m].pred # "a"

---------------------------------------------------------------------------
(* C15: reachability *)

\* the policy lets property p of v through to traversal
TraversalEligible(v, p) ==
  /\ p \in DOMAIN heap[v.n].attrs
  /\ p \notin BLACKLIST
  /\ GetAttr(v, p) # None
  /\ GetAttr(v, p).kind # "callable"
  /\ TypeName(v) \in DOMAIN WHITELIST
  /\ \/ WHITELIST[TypeName(v)] = ALL
     \/ \E i \in DOMAIN WHITELIST[TypeName(v)] : WHITELIST[TypeName(v)][i] = p

\* the values one step away from the nodes of S that are not blacklisted
ReachStep(S) ==
  S \cup UNION { UNION {Leaves(GetAttr(v, p)) : p \in {q \in DOMAIN heap[v.n].attrs : TraversalEligible(v, q)}} :
                 v \in {w \in S : w.kind = "ref" /\ ~BlacklistedType(w)} }

\* the values reachable from the root: a path visits at most the objects of the heap
Reach == ReachStep(ReachStep(ReachStep(Leaves(start))))

ReachableNodes == {v \in Reach : v.kind = "ref" /\ ~BlacklistedType(v)}

\* two reachable nodes of different identity whose identity hashes are equal
HashCollision ==
  \E v, w \in ReachableNodes :
    /\ PrefixScoped(v) /\ PrefixScoped(w)
    /\ IdentityKey(v) # IdentityKey(w)
    /\ IdentityHash(v) = IdentityHash(w)

\* C15 as stated, for graphs in which no null is reachable as the root or as a
\* list element and no two identity keys collide: when the run is over closed
\* holds an entry for the URI of every reachable node that is not blacklisted,
\* and no other entry
C15_AsStated ==
  (Done /\ None \notin Reach /\ ~HashCollision) =>
    /\ \A v \in ReachableNodes :
         \E c \in minted : c[1] = v /\ c[2] \in ClosedUris
    /\ \A i \in DOMAIN closed : closed[i].obj \in ReachableNodes

---------------------------------------------------------------------------
(* C16: default-deny *)

\* the values of the traversal-eligible properties of v, in reflection order
ExpectedPushes(v) ==
  IF v.kind # "ref" THEN <<>>
  ELSE LET names == SelectSeq(Dir(TypeName(v)), LAMBDA p : TraversalEligible(v, p))
       IN [k \in DOMAIN names |-> GetAttr(v, names[k])]

\* C16: the pass that registers an entity pushes the value of a property if
\* and only if the value is neither null nor callable, the name is not in the
\* global blacklist and the whitelist of the type is ALL or lists the name;
\* the statements of a serialised entity are those of the properties that in
\* addition are not suppressed for the type; so an entity of a type without
\* whitelist entry pushes nothing and has no property statement, only its
\* type statement
C16_DefaultDeny ==
  /\ [](\A i \in 1..pos :
          /\ {PredsOf(i)[k] : k \in DOMAIN PredsOf(i)}
               = IF closed[i].obj.kind # "ref" THEN {}
                 ELSE {p \in DOMAIN heap[closed[i].obj.n].attrs :
                         /\ TraversalEligible(closed[i].obj, p)
                         /\ <<TypeName(closed[i].obj), p>> \notin SHOULD_BE_SUPPRESSED}
          /\ TypeName(closed[i].obj) \notin DOMAIN WHITELIST =>
               /\ PredsOf(i) = <<>>
               /\ (closed[i].uri \o " a gcc:" \o TypeName(closed[i].obj) \o ".") \in OutTexts)
  /\ [][Len(closed') > Len(closed) =>
          LET v == closed'[Len(closed')].obj IN
            /\ open' = SubSeq(open, 1, Len(open) - 1) \o ExpectedPushes(v)
            /\ TypeName(v) \notin DOMAIN WHITELIST => Len(open') = Len(open) - 1]_vars

\* an entity of a type without whitelist entry is registered and serialised;
\* it holds a node that is not registered, as nothing else refers to it
C16_Witness ==
  /\ Done
  /\ \E i \in DOMAIN closed :
       LET v == closed[i].obj IN
         /\ v.kind = "ref"
         /\ TypeName(v) = "ResultDecl"
         /\ GetAttr(v, "type").kind = "ref"
         /\ ~BlacklistedType(GetAttr(v, "type"))
         /\ \A j \in DOMAIN closed : closed[j].obj # GetAttr(v, "type")
         /\ PredsOf(i) = <<>>
         /\ (closed[i].uri \o " a gcc:ResultDecl.") \in OutTexts

---------------------------------------------------------------------------
(* C17: the identity table *)

\* the calls of make_uri of the current invocation that went through the table
TableCalls == {c \in minted : ~IsGlobalFunction(c[1]) /\ ~IsGlobalLocation(c[1])}

\* C17: in every state of a run the identity table maps its hashes one-to-one
\* onto 1..n, n the number of entries, and every URI minted so far carries the
\* number the table holds for the hash of its entity; a step of the run leaves
\* every entry as it is and numbers the hashes it adds from n+1 on
C17_IdentityTable ==
  /\ [](/\ {hashes[h] : h \in DOMAIN hashes} = 1..Cardinality(DOMAIN hashes)
        /\ \A h1, h2 \in DOMAIN hashes : hashes[h1] = hashes[h2] => h1 = h2
        /\ \A c \in TableCalls :
             /\ IdentityHash(c[1]) \in DOMAIN hashes
             /\ c[2] = prefix \o ":" \o TypeName(c[1]) \o "_"
                         \o ToString(hashes[IdentityHash(c[1])]))
  /\ [][pc = "solve" =>
          /\ \A h \in DOMAIN hashes : h \in DOMAIN hashes' /\ hashes'[h] = hashes[h]
          /\ \A h \in DOMAIN hashes' \ DOMAIN hashes :
               hashes'[h] > Cardinality(DOMAIN hashes)
          /\ Cardinality(DOMAIN hashes') = Cardinality(DOMAIN hashes) + 1 =>
               \A h \in DOMAIN hashes' \ DOMAIN hashes :
                 hashes'[h] = Cardinality(DOMAIN hashes) + 1]_vars

\* the table holds several entries, and one hash was looked up for two
\* different entities
C17_Witness ==
  /\ Done
  /\ Cardinality(DOMAIN hashes) >= 2
  /\ \E c1, c2 \in TableCalls :
       /\ c1[1] # c2[1]
       /\ IdentityHash(c1[1]) = IdentityHash(c2[1])
       /\ hashes[IdentityHash(c1[1])] = 2

---------------------------------------------------------------------------
(* C18: the closed set *)

\* C18: in every state closed holds at most one entry per URI and per
\* identity; a step of the run keeps every entry of closed in place and adds
\* at most one; and a pass of the loop that pops a node without registering
\* it pushes nothing, so the properties of an identity are pushed once, by the
\* pass that registers it, however often it is pushed on the worklist
C18_ClosedSet ==
  /\ [](\A i, j \in DOMAIN closed :
          i # j => /\ closed[i].uri # closed[j].uri
                   /\ ~SameIdentity(closed[i].obj, closed[j].obj))
  /\ [][pc = "solve" =>
          /\ Len(closed') \in {Len(closed), Len(closed) + 1}
          /\ SubSeq(closed', 1, Len(closed)) = closed
          /\ (/\ Len(open) > 0
              /\ open[Len(open)].kind \in {"ref", "none"}
              /\ open' # open
              /\ closed' = closed)
               => open' = SubSeq(open, 1, Len(open) - 1)]_vars

\* an entity that holds properties and shares the identity of a registered
\* one was popped: it is neither registered nor expanded; and the registered
\* one was pushed again by an entity it refers to
C18_Witness ==
  /\ Done
  /\ \E c \in minted : \E i \in DOMAIN closed :
       /\ c[1].kind = "ref" /\ ~BlacklistedType(c[1])
       /\ c[1] # closed[i].obj
       /\ c[2] = closed[i].uri
       /\ SameIdentity(c[1], closed[i].obj)
       /\ \A j \in DOMAIN closed : closed[j].obj # c[1]
       /\ PropEntries(c[1]) # <<>>
       /\ closed[i].obj \in Successors(c[1])

---------------------------------------------------------------------------
(* C19: referential closure of the output *)

\* the text of value v in which every node is written as the URI minted for it
RECURSIVE Rendered(_)
Rendered(v) ==
  IF v.kind = "list"
    THEN IF v.elems = <<>> THEN "nil"
         ELSE "(" \o Join([j \in DOMAIN v.elems |-> Rendered(v.elems[j])]) \o ")"
  ELSE IF v.kind \in {"ref", "none"}
    THEN IF \E c \in minted : c[1] = v
           THEN (CHOOSE c \in minted : c[1] = v)[2] ELSE "?"
  ELSE repr_literal(v).r

\* the URI minted for v is the subject of a type statement
Typed(v) ==
  \E c \in minted : c[1] = v /\ \E m \in DOMAIN out : out[m].pred = "a" /\ out[m].subj = c[2]

\* C19: when the run is over, the object of every property statement is its
\* value with every node written as its URI, and every node in it that is not
\* of a blacklisted type, whether the value itself or an element of a list or
\* of a nested list, is the subject of a type statement of the output
C19_ReferentialClosure ==
  Done =>
    \A k \in DOMAIN out :
      out[k].pred # "a" =>
        /\ out[k].obj = Rendered(out[k].value)
        /\ \A v \in Leaves(out[k].value) :
             (v.kind \in {"ref", "none"} /\ ~BlacklistedType(v)) => Typed(v)

\* a statement whose object is a list that holds a list, with two nodes of
\* admitted type in it that have two URIs, neither the subject of the statement
C19_Witness ==
  /\ Done
  /\ \E k \in DOMAIN out :
       /\ out[k].pred # "a"
       /\ out[k].value.kind = "list"
       /\ \E j \in DOMAIN out[k].value.elems : out[k].value.elems[j].kind = "list"
       /\ \E c1, c2 \in minted :
            /\ {c1[1], c2[1]} \subseteq Leaves(out[k].value)
            /\ c1[1].kind = "ref" /\ ~BlacklistedType(c1[1]) /\ Typed(c1[1])
            /\ c2[1].kind = "ref" /\ ~BlacklistedType(c2[1]) /\ Typed(c2[1])
            /\ c1[2] # c2[2] /\ c1[2] # out[k].subj /\ c2[2] # out[k].subj

---------------------------------------------------------------------------
(* C20: the table is left alone by the globally addressable entities *)

Global(v) == IsGlobalFunction(v) \/ IsGlobalLocation(v)

\* C20: in every state the identity table holds exactly the hashes of the
\* prefix-scoped values minted so far, numbered 1..n, so a function declaration
\* or a source location takes no number; the URI of such an entity carries no
\* number of the table; and a step that mints only such entities for the first
\* time leaves the table as it is
C20_GlobalMintFrame ==
  /\ [](/\ DOMAIN hashes = LookedUp
        /\ {hashes[h] : h \in DOMAIN hashes} = 1..Cardinality(LookedUp)
        /\ \A c \in minted :
             /\ IsGlobalFunction(c[1]) =>
                  c[2] = "functions:" \o FormatStr(GetAttr(c[1], "name"))
             /\ IsGlobalLocation(c[1]) =>
                  c[2] = "<file://" \o FormatStr(GetAttr(c[1], "file")) \o "#"
                           \o FormatStr(GetAttr(c[1], "line")) \o ">")
  /\ [][(/\ minted' # minted
         /\ \A c \in minted' \ minted : Global(c[1]))
        => hashes' = hashes]_vars

\* a function declaration or location was registered between two prefix-scoped
\* entities, which are numbered 1 and 2; its own hash is not in the table
C20_Witness ==
  /\ Done
  /\ Len(closed) = 3
  /\ PrefixScoped(closed[1].obj)
  /\ Global(closed[2].obj)
  /\ PrefixScoped(closed[3].obj)
  /\ closed[1].uri = prefix \o ":" \o TypeName(closed[1].obj) \o "_1"
  /\ closed[3].uri = prefix \o ":" \o TypeName(closed[3].obj) \o "_2"
  /\ IdentityHash(closed[2].obj) \notin DOMAIN hashes

====
